---- MODULE Spec2Model ----
(***************************************************************************)
(* Model of src/lib/solar-calc.ts (calculatePrayerTimesAdvanced and its    *)
(* helpers).                                                               *)
(*                                                                         *)
(* Number representation.  The source computes in IEEE doubles; the model  *)
(* computes in fixed point over the integers:                              *)
(*   - angles (latitude, longitude, declination, altitudes, hour angles)   *)
(*     are in millidegrees (mdeg): -0.833 degrees is -833;                 *)
(*   - clock quantities (local hours, solar noon, EoT, the UTC offset) are *)
(*     in milliminutes (mmin): one hour is 60000, one day is 1440000;      *)
(*   - day fractions (Nf) are in 1/1440000 day, so that adding an hour     *)
(*     expressed in mmin to dayIndex * 1440000 is exact;                   *)
(*   - sines, cosines and the cosH ratio are scaled by 10000.              *)
(* A division by 15 of an angle (degrees to hours) is a multiplication by  *)
(* 4 here (mdeg to mmin), which is exact.                                  *)
(***************************************************************************)
EXTENDS Integers, Sequences, FiniteSets

(***************************************************************************)
(* Arithmetic helpers                                                      *)
(***************************************************************************)
Abs(x) == IF x < 0 THEN -x ELSE x

Sign(x) == IF x < 0 THEN -1 ELSE IF x > 0 THEN 1 ELSE 0

\* Quotient rounded to the nearest integer (b > 0), halves towards +infinity:
\* the fixed-point image of a double division.
RoundDiv(a, b) == (2 * a + b) \div (2 * b)

\* JavaScript's % operator: the remainder has the sign of the dividend.
JsRem(a, n) == IF a >= 0 THEN a % n ELSE -((-a) % n)

\* Math.round: floor(x + 0.5); here x = a / unit.
MathRound(a, unit) == (2 * a + unit) \div (2 * unit)

\* Math.max(a, Math.min(b, v)) with the default bounds -1 and 1 (scaled).
clamp(v) == IF v < -10000 THEN -10000 ELSE IF v > 10000 THEN 10000 ELSE v

(***************************************************************************)
(* Math.sin / Math.cos / Math.acos / Math.atan on fixed-point values       *)
(***************************************************************************)
\* sin of an angle in [0, 90000] mdeg, scaled by 10000: the angle in radians
\* (scaled by 10000; pi/180000 = 3927/225000000 up to 3e-6) fed to the
\* Taylor polynomial x - x^3/3! + x^5/5! - x^7/7! + x^9/9! in Horner form.
SinQ(a) ==
  LET x  == RoundDiv(a * 3927, 22500)
      x2 == RoundDiv(x * x, 10000)
      t4 == 10000 - RoundDiv(x2, 72)
      t3 == 10000 - RoundDiv(x2 * t4, 420000)
      t2 == 10000 - RoundDiv(x2 * t3, 200000)
      t1 == 10000 - RoundDiv(x2 * t2, 60000)
  IN  RoundDiv(x * t1, 10000)

\* Math.sin(d2r(a)) for any angle a in mdeg, scaled by 10000.
Sin(a) ==
  LET r == a % 360000
  IN  IF r <= 90000 THEN SinQ(r)
      ELSE IF r <= 180000 THEN SinQ(180000 - r)
      ELSE IF r <= 270000 THEN -SinQ(r - 180000)
      ELSE -SinQ(360000 - r)

\* Math.cos(d2r(a)) for any angle a in mdeg, scaled by 10000.
Cos(a) == Sin(a + 90000)

\* r2d(Math.acos(c)) for c in [-10000, 10000]: the angle of [0, 180000] mdeg
\* whose cosine is c, found by bisection on Cos (which decreases on it).
RECURSIVE AcosBisect(_, _, _)
AcosBisect(c, lo, hi) ==
  IF hi - lo <= 1 THEN (IF Cos(lo) - c <= c - Cos(hi) THEN lo ELSE hi)
  ELSE LET mid == (lo + hi) \div 2
       IN  IF Cos(mid) >= c THEN AcosBisect(c, mid, hi)
           ELSE AcosBisect(c, lo, mid)

Acos(c) ==
  IF c >= 10000 THEN 0
  ELSE IF c <= -10000 THEN 180000
  ELSE AcosBisect(c, 0, 180000)

\* r2d(Math.atan(n / d)) for n, d >= 0 not both 0: the angle of [0, 90000]
\* mdeg whose tangent is n / d, by bisection on sin(a) * d <= cos(a) * n.
RECURSIVE AtanBisect(_, _, _, _)
AtanBisect(n, d, lo, hi) ==
  IF hi - lo <= 1 THEN lo
  ELSE LET mid == (lo + hi) \div 2
       IN  IF Sin(mid) * d <= Cos(mid) * n THEN AtanBisect(n, d, mid, hi)
           ELSE AtanBisect(n, d, lo, mid)

\* r2d(Math.atan(n / d)) for any n and d (d = 0 is 1/0 = Infinity in the
\* source, whose arctangent is 90 degrees); the result has the sign of n / d.
AtanRatio(n, d) ==
  IF n = 0 THEN 0
  ELSE IF d = 0 THEN Sign(n) * 90000
  ELSE Sign(n) * Sign(d) * AtanBisect(Abs(n), Abs(d), 0, 90000)

(***************************************************************************)
(* Inputs of calculatePrayerTimesAdvanced (lines 95-104)                   *)
(***************************************************************************)
\* enum CalcMethod
CalcMethod == {"MWL", "Karachi", "Egypt", "UmmAlQura", "Custom"}

\* Calculation presets, in mdeg.
METHOD_ANGLES ==
  [m \in CalcMethod |->
     CASE m = "MWL"       -> [fajr |-> -18000, isha |-> -17000]
       [] m = "Karachi"   -> [fajr |-> -18000, isha |-> -18000]
       [] m = "Egypt"     -> [fajr |-> -19500, isha |-> -17500]
       [] m = "UmmAlQura" -> [fajr |-> -18500, isha |-> -90000]
       [] m = "Custom"    -> [fajr |-> -18000, isha |-> -18000]]

\* A date is [year, month, day] as getUTCFullYear / getUTCMonth (0-based) /
\* getUTCDate return them.
IsLeap(y) == (y % 4 = 0 /\ y % 100 # 0) \/ y % 400 = 0

DaysBeforeMonth(y, m) ==
  LET len == <<31, IF IsLeap(y) THEN 29 ELSE 28, 31, 30, 31, 30,
               31, 31, 30, 31, 30, 31>>
      sum[k \in 0..11] == IF k = 0 THEN 0 ELSE sum[k - 1] + len[k]
  IN  sum[m]

\* floor((Date.UTC(y, m, d) - Date.UTC(y, 0, 1)) / 86400000) + 1
DayIndex(date) == DaysBeforeMonth(date.year, date.month) + (date.day - 1) + 1

(***************************************************************************)
(* Solar position (lines 48-55, 111-129)                                   *)
(***************************************************************************)
\* A faulty variant: the previous-UTC-day branch forgets to add the 24 hours
\* back to the hour.
FractionalDay_NoWrap(date, timezone, localHour) ==
  LET dayIndex == DayIndex(date)
      utcHour  == localHour - timezone
  IN  IF utcHour < 0
        THEN (dayIndex - 1) * 1440000 + utcHour
      ELSE IF utcHour >= 1440000
        THEN (dayIndex + 1) * 1440000 + (utcHour - 1440000)
      ELSE dayIndex * 1440000 + utcHour

\* The IIFE of getSolarAtLocalHour: the day fraction Nf (in 1/1440000 day)
\* of local hour localHour (mmin) on the given date, referenced to UTC.
FractionalDay(date, timezone, localHour) ==
  LET dayIndex == DayIndex(date)
      utcHour  == localHour - timezone
      fracDay  == utcHour
  IN  IF utcHour < 0
        THEN (dayIndex - 1) * 1440000 + (utcHour + 1440000)
      ELSE IF utcHour >= 1440000
        THEN (dayIndex + 1) * 1440000 + (utcHour - 1440000)
      ELSE dayIndex * 1440000 + fracDay

\* A faulty variant: the declination has the wrong sign (the hemispheres'
\* seasons are exchanged).
declinationAndEoTFromNf_SignFlipped(Nf) ==
  LET B == RoundDiv(Nf - 81 * 1440000, 1460)
  IN  [delta |-> -RoundDiv(23450 * Sin(B), 10000),
       EoT   |-> RoundDiv(9870 * Sin(2 * B) - 7530 * Cos(B) - 1500 * Sin(B),
                          10000)]

\* declinationAndEoTFromNf: B = (360 / 365) * (Nf - 81) degrees, i.e.
\* (Nf - 81 days) / 1460 in mdeg; delta in mdeg, EoT in mmin.
declinationAndEoTFromNf(Nf) ==
  LET B == RoundDiv(Nf - 81 * 1440000, 1460)
  IN  [delta |-> RoundDiv(23450 * Sin(B), 10000),
       EoT   |-> RoundDiv(9870 * Sin(2 * B) - 7530 * Cos(B) - 1500 * Sin(B),
                          10000)]

getSolarAtLocalHour(date, timezone, localHour) ==
  declinationAndEoTFromNf(FractionalDay(date, timezone, localHour))

\* 12 + timezone - lng / 15 - EoT / 60, in mmin.
SolarNoonOf(timezone, lng, eot) == 720000 + timezone - 4 * lng - eot

(***************************************************************************)
(* Hour angle and Asr altitude (lines 75-89)                               *)
(***************************************************************************)
\* The ratio handed to clamp on line 78, scaled by 10000:
\* (sin(alpha) - sin(phi) sin(d)) / (cos(phi) cos(d)).  A zero denominator
\* is the source's division by (almost) zero: a ratio beyond any bound.
CosHRatio(latDeg, declDeg, alphaDeg) ==
  LET num == Sin(alphaDeg) * 10000 - Sin(latDeg) * Sin(declDeg)
      den == RoundDiv(Cos(latDeg) * Cos(declDeg), 2000)
  IN  IF den = 0 THEN (IF num < 0 THEN -1000000000 ELSE 1000000000)
      ELSE RoundDiv(RoundDiv(num, 200) * 1000, den)

\* hourAngleDeg: r2d(Math.acos(clamp(ratio))), in mdeg.
hourAngleDeg(latDeg, declDeg, alphaDeg) ==
  Acos(clamp(CosHRatio(latDeg, declDeg, alphaDeg)))

\* asrAltitudeDeg: -r2d(atan(1 / (shadowFactor + tan(|phi - d|)))), where
\* 1 / (s + sin x / cos x) is evaluated as cos x / (s cos x + sin x).
asrAltitudeDeg(latDeg, declDeg, shadowFactor) ==
  LET x == Abs(latDeg - declDeg)
  IN  -AtanRatio(Cos(x), shadowFactor * Cos(x) + Sin(x))

(***************************************************************************)
(* Formatting (lines 57-72)                                                *)
(***************************************************************************)
Digits == <<"0", "1", "2", "3", "4", "5", "6", "7", "8", "9">>

\* Number.prototype.toString for 0 <= n <= 99, as a sequence of characters.
NumToString(n) ==
  IF n < 10 THEN <<Digits[n + 1]>>
  ELSE <<Digits[(n \div 10) + 1], Digits[(n % 10) + 1]>>

\* String.prototype.padStart(2, "0")
PadStart2(s) == IF Len(s) < 2 THEN <<"0">> \o s ELSE s

\* A faulty variant: the minute's carry increments the hour without wrapping
\* it at 24.
formatHM_NoHourWrap(hoursFloat) ==
  LET hf == JsRem(JsRem(hoursFloat, 1440000) + 1440000, 1440000)
      h0 == hf \div 60000
      m0 == MathRound(hf - h0 * 60000, 1000)
      m  == IF m0 = 60 THEN 0 ELSE m0
      h  == IF m0 = 60 THEN h0 + 1 ELSE h0
      period   == IF h >= 12 THEN <<"P", "M">> ELSE <<"A", "M">>
      displayH == IF h % 12 = 0 THEN 12 ELSE h % 12
  IN  NumToString(displayH) \o <<":">> \o PadStart2(NumToString(m))
        \o <<" ">> \o period

\* formatHM: the clock string "H:MM AM" / "H:MM PM" of a local hour (mmin),
\* as its sequence of characters.
formatHM(hoursFloat) ==
  LET hf == JsRem(JsRem(hoursFloat, 1440000) + 1440000, 1440000)
      h0 == hf \div 60000
      m0 == MathRound(hf - h0 * 60000, 1000)
      m  == IF m0 = 60 THEN 0 ELSE m0
      h  == IF m0 = 60 THEN (h0 + 1) % 24 ELSE h0
      period   == IF h >= 12 THEN <<"P", "M">> ELSE <<"A", "M">>
      displayH == IF h % 12 = 0 THEN 12 ELSE h % 12
  IN  NumToString(displayH) \o <<":">> \o PadStart2(NumToString(m)) \o <<" ">>
        \o period

\* hoursToMins: Math.round(hours * 60)
hoursToMins(hours) == MathRound(hours, 1000)

\* minsToHours: mins / 60 (hours in mmin)
minsToHours(mins) == mins * 1000

(***************************************************************************)
(* State                                                                   *)
(***************************************************************************)
VARIABLES
  \* arguments of the current call (customXAngle: <<>> is undefined)
  lat, lng, timezone, date, method, asrShadow, customFajrAngle, customIshaAngle,
  \* the closure's variables (lines 132-137)
  solarAtNoon, delta, EoT, solarNoon,
  \* solvePrayer's frame: parameters, H, t and the loop counter i (-1: no
  \* frame); the Dhuhr loop uses i too
  alphaDeg, beforeNoon, H, t, i,
  \* fajrLocal ... ishaLocal, by event
  times,
  \* resultMins and result (lines 195-212), by event
  resultMins, result,
  \* the statement the call has reached
  pc,
  \* observations: the argument and the Nf of the last getSolarAtLocalHour,
  \* the ratio last handed to clamp, and per event the altitude handed to
  \* solvePrayer and whether a ratio of it fell outside [-1, 1]
  localHour, Nf, cosH, angleOf, outOfRange,
  \* the caller: how many calls it has made, and the previous call's
  \* arguments and result (<<>>: none)
  calls, prev,
  \* a direct use of formatHM: its argument, its string, the string parsed
  hoursFloat, text, parsed

args == <<lat, lng, timezone, date, method, asrShadow, customFajrAngle,
          customIshaAngle>>
closure == <<solarAtNoon, delta, EoT, solarNoon>>
frame == <<alphaDeg, beforeNoon, H, t, i>>
outputs == <<times, resultMins, result>>
observed == <<localHour, Nf, cosH, angleOf, outOfRange>>
caller == <<calls, prev>>
formatting == <<hoursFloat, text, parsed>>
vars == <<args, closure, frame, outputs, pc, observed, caller, formatting>>

Events == {"fajr", "sunrise", "dhuhr", "asr", "maghrib", "isha"}

\* The events solvePrayer is called for, and the statement after each.
SolveEvents == {"fajr", "sunrise", "asr", "maghrib", "isha"}

AfterEvent(e) ==
  CASE e = "fajr"    -> "sunrise"
    [] e = "sunrise" -> "dhuhr"
    [] e = "dhuhr"   -> "asr"
    [] e = "asr"     -> "maghrib"
    [] e = "maghrib" -> "isha"
    [] e = "isha"    -> "build"

\* Faulty variants: the caller's angles are taken under every method.
fajrAngle_AnyMethod ==
  IF customFajrAngle # <<>>
    THEN customFajrAngle[1] ELSE METHOD_ANGLES[method].fajr

ishaAngle_AnyMethod ==
  IF customIshaAngle # <<>>
    THEN customIshaAngle[1] ELSE METHOD_ANGLES[method].isha

\* lines 106-108
fajrAngle ==
  IF method = "Custom" /\ customFajrAngle # <<>>
    THEN customFajrAngle[1] ELSE METHOD_ANGLES[method].fajr

ishaAngle ==
  IF method = "Custom" /\ customIshaAngle # <<>>
    THEN customIshaAngle[1] ELSE METHOD_ANGLES[method].isha

(***************************************************************************)
(* The inputs explored                                                     *)
(***************************************************************************)
\* Latitudes (mdeg), from 60 S to 60 N plus polar ones.
Latitudes == {-89000, -60000, -33000, 0, 16841, 45000, 60000, 80000}

\* <<longitude (mdeg), UTC offset (mmin)>>: Greenwich, Yangon (UTC+6:30),
\* Kiritimati (UTC+14).
Places == {<<0, 0>>, <<96174, 390000>>, <<-157400, 840000>>}

\* March equinox, June and December solstices, and a leap-year September
\* equinox (months are 0-based).
Dates == {[year |-> 2025, month |-> 2, day |-> 20],
          [year |-> 2025, month |-> 5, day |-> 21],
          [year |-> 2025, month |-> 11, day |-> 21],
          [year |-> 2024, month |-> 8, day |-> 22]}

CustomFajrAngles == {<<>>, <<-12000>>}
CustomIshaAngles == {<<>>, <<-15000>>}

\* The number of calls the caller makes in one behaviour.
MaxCalls == 2

NoResult == [e \in Events |-> <<>>]
NoTimes == [e \in Events |-> 0]

\* The state of a call before its first statement.
Fresh ==
  /\ solarAtNoon = [delta |-> 0, EoT |-> 0]
  /\ delta = 0 /\ EoT = 0 /\ solarNoon = 0
  /\ alphaDeg = 0 /\ beforeNoon = FALSE /\ H = 0 /\ t = 0 /\ i = -1
  /\ times = NoTimes /\ resultMins = NoTimes /\ result = NoResult
  /\ localHour = 0 /\ Nf = 0 /\ cosH = 0
  /\ angleOf = [e \in Events |-> <<>>]
  /\ outOfRange = [e \in Events |-> FALSE]

NoFormatting == hoursFloat = 0 /\ text = <<>> /\ parsed = 0

\* A first call with arguments from the given sets.
InitWith(lats, places, dates, methods, fajrAngles, ishaAngles) ==
  /\ lat \in lats
  /\ \E p \in places : lng = p[1] /\ timezone = p[2]
  /\ date \in dates
  /\ method \in methods
  /\ asrShadow \in {1, 2}
  /\ customFajrAngle \in fajrAngles
  /\ customIshaAngle \in ishaAngles
  /\ Fresh
  /\ pc = "start"
  /\ calls = 1 /\ prev = <<>>
  /\ NoFormatting

\* Under a preset method the caller passes both custom angles or none.
Init ==
  /\ InitWith(Latitudes, Places, Dates, CalcMethod, CustomFajrAngles,
              CustomIshaAngles)
  /\ (method # "Custom" => (customFajrAngle = <<>>) = (customIshaAngle = <<>>))

(***************************************************************************)
(* calculatePrayerTimesAdvanced, statement by statement                    *)
(***************************************************************************)
\* lines 132-137: the solar state at local noon and the first solar noon.
Begin ==
  /\ pc = "start"
  /\ LET solar == getSolarAtLocalHour(date, timezone, 720000)
     IN  /\ solarAtNoon' = solar
         /\ delta' = solar.delta
         /\ EoT' = solar.EoT
         /\ solarNoon' = SolarNoonOf(timezone, lng, solar.EoT)
  /\ localHour' = 720000
  /\ Nf' = FractionalDay(date, timezone, 720000)
  /\ pc' = "fajr"
  /\ UNCHANGED <<args, frame, outputs, cosH, angleOf, outOfRange, caller,
                 formatting>>

\* lines 142-143: solvePrayer(alpha, before) is entered for event pc and
\* makes its initial estimate from the closure's current delta and solarNoon.
SolveEnter(alpha, before) ==
  /\ i = -1
  /\ alphaDeg' = alpha
  /\ beforeNoon' = before
  /\ cosH' = CosHRatio(lat, delta, alpha)
  /\ H' = hourAngleDeg(lat, delta, alpha)
  /\ t' = IF before THEN solarNoon - 4 * H' ELSE solarNoon + 4 * H'
  /\ i' = 0
  /\ angleOf' = [angleOf EXCEPT ![pc] = <<alpha>>]
  /\ outOfRange' = [outOfRange EXCEPT ![pc] = Abs(cosH') > 10000]
  /\ UNCHANGED <<args, closure, outputs, pc, localHour, Nf, caller,
                 formatting>>

\* line 159
SolveFajr == pc = "fajr" /\ SolveEnter(fajrAngle, TRUE)

\* line 162
SolveSunrise == pc = "sunrise" /\ SolveEnter(-833, TRUE)

\* lines 179-180
SolveAsr ==
  /\ pc = "asr"
  /\ SolveEnter(asrAltitudeDeg(lat, delta, asrShadow), FALSE)

\* line 183
SolveMaghrib == pc = "maghrib" /\ SolveEnter(-833, FALSE)

\* lines 187, 191
SolveIsha ==
  /\ pc = "isha"
  /\ ~(method = "UmmAlQura" /\ ishaAngle <= -90000)
  /\ SolveEnter(ishaAngle, FALSE)

\* lines 146-153: one round of solvePrayer's loop.
SolveIterate ==
  /\ pc \in SolveEvents
  /\ i \in 0..2
  /\ LET solar == getSolarAtLocalHour(date, timezone, t)
     IN  /\ delta' = solar.delta
         /\ EoT' = solar.EoT
         /\ solarNoon' = SolarNoonOf(timezone, lng, solar.EoT)
         /\ cosH' = CosHRatio(lat, solar.delta, alphaDeg)
         /\ H' = hourAngleDeg(lat, solar.delta, alphaDeg)
  /\ t' = IF beforeNoon THEN solarNoon' - 4 * H' ELSE solarNoon' + 4 * H'
  /\ i' = i + 1
  /\ localHour' = t
  /\ Nf' = FractionalDay(date, timezone, t)
  /\ outOfRange' = [outOfRange EXCEPT ![pc] = @ \/ Abs(cosH') > 10000]
  /\ UNCHANGED <<args, solarAtNoon, alphaDeg, beforeNoon, outputs, pc,
                 angleOf, caller, formatting>>

\* line 154 and the assignment of the call's value (lines 159-191).
SolveReturn ==
  /\ pc \in SolveEvents
  /\ i = 3
  /\ times' = [times EXCEPT ![pc] = t]
  /\ pc' = AfterEvent(pc)
  /\ i' = -1
  /\ UNCHANGED <<args, closure, alphaDeg, beforeNoon, H, t, resultMins,
                 result, observed, caller, formatting>>

\* lines 165-168
DhuhrEnter ==
  /\ pc = "dhuhr"
  /\ i = -1
  /\ LET solarAtDhuhr == getSolarAtLocalHour(date, timezone, 720000)
     IN  /\ EoT' = solarAtDhuhr.EoT
         /\ delta' = solarAtDhuhr.delta
         /\ solarNoon' = SolarNoonOf(timezone, lng, solarAtDhuhr.EoT)
  /\ i' = 0
  /\ localHour' = 720000
  /\ Nf' = FractionalDay(date, timezone, 720000)
  /\ UNCHANGED <<args, solarAtNoon, alphaDeg, beforeNoon, H, t, outputs, pc,
                 cosH, angleOf, outOfRange, caller, formatting>>

\* lines 170-174: one round of the solar-noon refinement (delta is kept).
DhuhrIterate ==
  /\ pc = "dhuhr"
  /\ i \in 0..1
  /\ LET solar == getSolarAtLocalHour(date, timezone, solarNoon)
     IN  /\ EoT' = solar.EoT
         /\ solarNoon' = SolarNoonOf(timezone, lng, solar.EoT)
  /\ i' = i + 1
  /\ localHour' = solarNoon
  /\ Nf' = FractionalDay(date, timezone, solarNoon)
  /\ UNCHANGED <<args, solarAtNoon, delta, alphaDeg, beforeNoon, H, t,
                 outputs, pc, cosH, angleOf, outOfRange, caller, formatting>>

\* line 175
DhuhrReturn ==
  /\ pc = "dhuhr"
  /\ i = 2
  /\ times' = [times EXCEPT !["dhuhr"] = solarNoon]
  /\ pc' = AfterEvent("dhuhr")
  /\ i' = -1
  /\ UNCHANGED <<args, closure, alphaDeg, beforeNoon, H, t, resultMins,
                 result, observed, caller, formatting>>

\* lines 187-189: UmmAlQura's Isha, a fixed 90 minutes after Maghrib.
IshaFixedOffset ==
  /\ pc = "isha"
  /\ i = -1
  /\ method = "UmmAlQura" /\ ishaAngle <= -90000
  /\ times' = [times EXCEPT !["isha"] = times["maghrib"] + minsToHours(90)]
  /\ pc' = AfterEvent("isha")
  /\ UNCHANGED <<args, closure, frame, resultMins, result, observed, caller,
                 formatting>>

\* lines 195-214
BuildResult ==
  /\ pc = "build"
  /\ resultMins' = [e \in Events |-> hoursToMins(times[e])]
  /\ result' = [e \in Events |-> formatHM(times[e])]
  /\ pc' = "done"
  /\ UNCHANGED <<args, closure, frame, times, observed, caller, formatting>>

Next ==
  \/ Begin
  \/ SolveFajr \/ SolveSunrise \/ SolveAsr \/ SolveMaghrib \/ SolveIsha
  \/ SolveIterate \/ SolveReturn
  \/ DhuhrEnter \/ DhuhrIterate \/ DhuhrReturn
  \/ IshaFixedOffset
  \/ BuildResult

Spec == Init /\ [][Next]_vars

(***************************************************************************)
(* A caller that calls again with one argument changed                     *)
(***************************************************************************)
\* The custom Fajr angles of the repeated calls.
RepeatFajrAngles == {<<>>, <<-12000>>, <<-1000>>}

\* The function returns to its caller, which records the call and calls
\* again with every argument the same but asrShadow, or but customFajrAngle.
CallAgain ==
  /\ pc = "done"
  /\ calls < MaxCalls
  /\ prev' = <<[asrShadow |-> asrShadow, customFajrAngle |-> customFajrAngle,
               times |-> times, resultMins |-> resultMins,
               result |-> result]>>
  /\ \/ /\ asrShadow' = 3 - asrShadow
        /\ UNCHANGED customFajrAngle
     \/ /\ method = "Custom"
        /\ customFajrAngle' \in RepeatFajrAngles \ {customFajrAngle}
        /\ UNCHANGED asrShadow
  /\ UNCHANGED <<lat, lng, timezone, date, method, customIshaAngle>>
  /\ solarAtNoon' = [delta |-> 0, EoT |-> 0]
  /\ delta' = 0 /\ EoT' = 0 /\ solarNoon' = 0
  /\ alphaDeg' = 0 /\ beforeNoon' = FALSE /\ H' = 0 /\ t' = 0 /\ i' = -1
  /\ times' = NoTimes /\ resultMins' = NoTimes /\ result' = NoResult
  /\ localHour' = 0 /\ Nf' = 0 /\ cosH' = 0
  /\ angleOf' = [e \in Events |-> <<>>]
  /\ outOfRange' = [e \in Events |-> FALSE]
  /\ pc' = "start"
  /\ calls' = calls + 1
  /\ UNCHANGED formatting

\* Yangon and a point near the South Pole at Greenwich, at the equinox and
\* six days after it.
InitCalls ==
  InitWith({16841, -89000}, {<<96174, 390000>>, <<0, 0>>},
           {[year |-> 2025, month |-> 2, day |-> 20],
            [year |-> 2025, month |-> 2, day |-> 26]},
           {"Karachi", "UmmAlQura", "Custom"}, RepeatFajrAngles, {<<>>})

NextCalls == Next \/ CallAgain

SpecCalls == InitCalls /\ [][NextCalls]_vars

(***************************************************************************)
(* Direct uses of formatHM and of the day-fraction conversion              *)
(***************************************************************************)
\* The number of evenly spread arguments formatHM is applied to.
NumFormatSamples == 205

\* Fractional hours of [0, 24) in mmin: a spread over the day, and around
\* each hour's last half minute, where the rounded minute reaches 60.
FormatInputs ==
  ({k * 7001 : k \in 0..NumFormatSamples}
     \cup {h * 60000 + 59499 + d : h \in 0..23, d \in {0, 1, 500}})
  \cap 0..1439999

\* Arguments that do not matter to a direct use of a helper.
AnyArgs ==
  /\ lat = 0 /\ lng = 0 /\ method = "MWL" /\ asrShadow = 1
  /\ customFajrAngle = <<>> /\ customIshaAngle = <<>>

InitFormat ==
  /\ AnyArgs /\ timezone = 0 /\ date = [year |-> 2025, month |-> 0, day |-> 1]
  /\ Fresh
  /\ pc = "formatHM"
  /\ calls = 0 /\ prev = <<>>
  /\ hoursFloat \in FormatInputs
  /\ text = <<>> /\ parsed = 0

\* formatHM(hoursFloat)
Format ==
  /\ pc = "formatHM"
  /\ text' = formatHM(hoursFloat)
  /\ pc' = "formatted"
  /\ UNCHANGED <<args, closure, frame, outputs, observed, caller, hoursFloat,
                 parsed>>

SpecFormat == InitFormat /\ [][Format]_vars

\* The reach of the local hours handed to the conversion, in steps of 2.85 h
\* on either side of midnight.
MaxHourSteps == 24

DayOffsets == {-720000, 0, 390000, 840000}

InitDay ==
  /\ AnyArgs /\ timezone \in DayOffsets /\ date \in Dates
  /\ solarAtNoon = [delta |-> 0, EoT |-> 0]
  /\ delta = 0 /\ EoT = 0 /\ solarNoon = 0
  /\ alphaDeg = 0 /\ beforeNoon = FALSE /\ H = 0 /\ t = 0 /\ i = -1
  /\ times = NoTimes /\ resultMins = NoTimes /\ result = NoResult
  /\ localHour \in {k * 171000 : k \in -MaxHourSteps..MaxHourSteps}
  /\ Nf = 0 /\ cosH = 0
  /\ angleOf = [e \in Events |-> <<>>]
  /\ outOfRange = [e \in Events |-> FALSE]
  /\ pc = "getSolarAtLocalHour"
  /\ calls = 0 /\ prev = <<>>
  /\ NoFormatting

\* getSolarAtLocalHour(localHour)
SolarAtLocalHour ==
  /\ pc = "getSolarAtLocalHour"
  /\ Nf' = FractionalDay(date, timezone, localHour)
  /\ LET solar == getSolarAtLocalHour(date, timezone, localHour)
     IN  delta' = solar.delta /\ EoT' = solar.EoT
  /\ pc' = "solar"
  /\ UNCHANGED <<args, solarAtNoon, solarNoon, frame, outputs, localHour,
                 cosH, angleOf, outOfRange, caller, formatting>>

\* The conversion as the solver uses it and as used directly.
InitAny == Init \/ InitDay

NextAny == Next \/ SolarAtLocalHour

SpecDay == InitAny /\ [][NextAny]_vars

(***************************************************************************)
(* Reading a clock string back (used by the properties only)               *)
(***************************************************************************)
IsDigit(c) == \E d \in 1..10 : Digits[d] = c

DigitValue(c) == (CHOOSE d \in 1..10 : Digits[d] = c) - 1

\* "H:MM AM", "HH:MM AM", "H:MM PM" or "HH:MM PM": a 12-hour hour without
\* leading zero, a two-digit minute below 60, a space and the period.
IsClockString(s) ==
  /\ Len(s) \in {7, 8}
  /\ LET k == Len(s) - 5
     IN  /\ \A j \in (1..(k - 1)) \cup {k + 1, k + 2} : IsDigit(s[j])
         /\ s[1] # "0"
         /\ s[k] = ":"
         /\ s[k + 3] = " "
         /\ s[k + 4] \in {"A", "P"}
         /\ s[k + 5] = "M"
         /\ (IF k = 2 THEN DigitValue(s[1])
             ELSE 10 * DigitValue(s[1]) + DigitValue(s[2])) \in 1..12
         /\ 10 * DigitValue(s[k + 1]) + DigitValue(s[k + 2]) \in 0..59

\* Minutes since midnight of a clock string: 60 * hour24 + minute.
ParseHM(s) ==
  LET k      == Len(s) - 5
      hour12 == IF k = 2 THEN DigitValue(s[1])
                ELSE 10 * DigitValue(s[1]) + DigitValue(s[2])
      minute == 10 * DigitValue(s[k + 1]) + DigitValue(s[k + 2])
      hour24 == (hour12 % 12) + (IF s[k + 4] = "P" THEN 12 ELSE 0)
  IN  60 * hour24 + minute

\* The placeholder an event without a time is rendered as ("--:--" in the
\* earlier revision, src/unnamed/part_001 line 85).
UnreachablePlaceholder == <<"-", "-", ":", "-", "-">>

IsSolstice(d) == d.month \in {5, 11} /\ d.day = 21

Done == pc = "done"

\* The previous call differed from this one in asrShadow only, or in
\* customFajrAngle only.
OnlyShadowChanged ==
  /\ prev # <<>>
  /\ prev[1].asrShadow # asrShadow
  /\ prev[1].customFajrAngle = customFajrAngle

OnlyFajrAngleChanged ==
  /\ prev # <<>>
  /\ prev[1].asrShadow = asrShadow
  /\ prev[1].customFajrAngle # customFajrAngle

(***************************************************************************)
(* C1 - C5                                                                 *)
(***************************************************************************)
\* C1: for a latitude within [-60, 60] degrees and a non-solstice date, the
\* returned minutes satisfy fajr < sunrise < dhuhr < asr < maghrib < isha.
C1_Ordering ==
  (Done /\ Abs(lat) <= 60000 /\ ~IsSolstice(date)) =>
    /\ resultMins["fajr"] < resultMins["sunrise"]
    /\ resultMins["sunrise"] < resultMins["dhuhr"]
    /\ resultMins["dhuhr"] < resultMins["asr"]
    /\ resultMins["asr"] < resultMins["maghrib"]
    /\ resultMins["maghrib"] < resultMins["isha"]

\* C2: of two calls that differ only in asrShadow, the one with asrShadow = 2
\* returns an Asr time that is not earlier than the one with asrShadow = 1.
C2_ShadowMonotone ==
  (Done /\ OnlyShadowChanged /\ asrShadow = 2) =>
    resultMins["asr"] >= prev[1].resultMins["asr"]

\* C3: a ratio outside [-1, 1] makes the hour-angle solver return the
\* Unreachable sentinel, not the arccosine of the clamped ratio, and an event
\* with such a ratio in any of its four evaluations is rendered as the
\* placeholder.
C3_Unreachable ==
  /\ (pc \in SolveEvents /\ i >= 0 /\ Abs(cosH) > 10000) => H \notin {0, 180000}
  /\ Done => \A e \in Events :
               outOfRange[e] => result[e] = UnreachablePlaceholder

\* The case of C4: latitude 80 N on 21 December, Fajr and Isha at -18.
PolarWinter ==
  /\ lat = 80000
  /\ date.month = 11 /\ date.day = 21
  /\ fajrAngle = -18000 /\ ishaAngle = -18000

\* C4 (as stated): at 80 N on the winter solstice fajr and isha are the
\* Unreachable placeholder.
C4_PolarPlaceholder ==
  (Done /\ PolarWinter) =>
    /\ result["fajr"] = UnreachablePlaceholder
    /\ result["isha"] = UnreachablePlaceholder

\* C4 (amended): at 80 N on the winter solstice the -18 degree altitude is
\* reached (the ratio stays within [-1, 1] in all evaluations of Fajr and of
\* Isha), and fajr and isha are clock strings "H:MM AM/PM", Fajr before and
\* Isha after Dhuhr.
C4_PolarClockTimes ==
  (Done /\ PolarWinter) =>
    /\ ~outOfRange["fajr"] /\ ~outOfRange["isha"]
    /\ IsClockString(result["fajr"]) /\ IsClockString(result["isha"])
    /\ times["fajr"] < times["dhuhr"] /\ times["dhuhr"] < times["isha"]

C4_Witness ==
  /\ Done /\ PolarWinter /\ method = "Karachi"
  /\ IsClockString(result["fajr"]) /\ IsClockString(result["isha"])
  /\ outOfRange["sunrise"]

\* C5: the time of an event depends only on (latitude, longitude, offset,
\* date, altitude, beforeNoon): solvePrayer starts every event from the solar
\* state of local noon, so Sunrise is the same whatever the Fajr angle, and
\* Maghrib the same whatever asrShadow.
C5_Stateless ==
  /\ (pc \in SolveEvents /\ i = -1
        /\ ~(pc = "isha" /\ method = "UmmAlQura" /\ ishaAngle <= -90000)) =>
       /\ delta = solarAtNoon.delta
       /\ EoT = solarAtNoon.EoT
       /\ solarNoon = SolarNoonOf(timezone, lng, solarAtNoon.EoT)
  /\ (Done /\ OnlyFajrAngleChanged) =>
       /\ times["sunrise"] = prev[1].times["sunrise"]
       /\ resultMins["sunrise"] = prev[1].resultMins["sunrise"]
       /\ result["sunrise"] = prev[1].result["sunrise"]
  /\ (Done /\ OnlyShadowChanged) =>
       /\ times["maghrib"] = prev[1].times["maghrib"]
       /\ resultMins["maghrib"] = prev[1].resultMins["maghrib"]
       /\ result["maghrib"] = prev[1].result["maghrib"]

\* The part of C5 about results alone: the local time of Sunrise does not
\* depend on the Fajr angle.
C5_SunriseAlone ==
  (Done /\ OnlyFajrAngleChanged) => times["sunrise"] = prev[1].times["sunrise"]

(***************************************************************************)
(* C6 - C10                                                                *)
(***************************************************************************)
\* C6 (as stated): for x in [0, 24), formatHM(x) parsed back is within one
\* minute of x * 60.
C6_RoundTrip ==
  pc = "formatted" => Abs(ParseHM(text) * 1000 - hoursFloat) <= 1000

\* C6 (amended): for x in [0, 24), formatHM(x) is a clock string, and parsed
\* back it is within one minute of x * 60 modulo 1440: in the last half
\* minute of the day the carry wraps the hour to 0 and the string is
\* "12:00 AM", which parses to 0.
C6_RoundTripModuloDay ==
  pc = "formatted" =>
    /\ IsClockString(text)
    /\ LET d == Abs(ParseHM(text) * 1000 - hoursFloat)
       IN  d <= 1000 \/ 1440000 - d <= 1000
    /\ hoursFloat >= 1439500 => ParseHM(text) = 0

C6_Witness ==
  /\ pc = "formatted"
  /\ hoursFloat >= 1439500
  /\ text = <<"1", "2", ":", "0", "0", " ", "A", "M">>

\* The Fajr and Isha angles of the preset table and of Custom (mdeg).
ExpectedFajrAngle ==
  CASE method = "MWL"       -> -18000
    [] method = "Karachi"   -> -18000
    [] method = "Egypt"     -> -19500
    [] method = "UmmAlQura" -> -18500
    [] method = "Custom"    ->
         IF customFajrAngle = <<>> THEN -18000 ELSE customFajrAngle[1]

ExpectedIshaAngle ==
  CASE method = "MWL"       -> -17000
    [] method = "Karachi"   -> -18000
    [] method = "Egypt"     -> -17500
    [] method = "Custom"    ->
         IF customIshaAngle = <<>> THEN -18000 ELSE customIshaAngle[1]

\* C7: under UmmAlQura, whatever custom angles are passed, Isha is not solved
\* from an angle but is Maghrib's local time plus 90 minutes, and the isha
\* minutes are the maghrib minutes + 90; under every other method Isha comes
\* from solvePrayer with the method's Isha angle.
C7_IshaRule ==
  Done =>
    IF method = "UmmAlQura"
      THEN /\ angleOf["isha"] = <<>>
           /\ times["isha"] = times["maghrib"] + 90000
           /\ resultMins["isha"] = resultMins["maghrib"] + 90
      ELSE angleOf["isha"] = <<ExpectedIshaAngle>>

C7_Witness ==
  /\ Done /\ method = "UmmAlQura" /\ customIshaAngle # <<>>
  /\ resultMins["isha"] = resultMins["maghrib"] + 90

\* C8: the angle handed to the solver for Fajr, and for Isha when it is
\* solved, is the preset's; under Custom it is the caller's when supplied and
\* -18 when absent, each independently; under a preset method the caller's
\* angles are ignored; every call runs to its result.
C8_AngleSelection ==
  /\ fajrAngle = ExpectedFajrAngle
  /\ method # "UmmAlQura" => ishaAngle = ExpectedIshaAngle
  /\ angleOf["fajr"] \in {<<>>, <<ExpectedFajrAngle>>}
  /\ angleOf["isha"] # <<>> =>
       method # "UmmAlQura" /\ angleOf["isha"] = <<ExpectedIshaAngle>>
  /\ Done => angleOf["fajr"] # <<>>

C8_Witness ==
  /\ Done /\ method = "Custom"
  /\ customFajrAngle = <<>> /\ customIshaAngle = <<-15000>>
  /\ angleOf["fajr"] = <<-18000>> /\ angleOf["isha"] = <<-15000>>

\* The day of the year of the dates explored.
DayOfYear(d) ==
  CASE d = [year |-> 2025, month |-> 2, day |-> 20]  -> 79
    [] d = [year |-> 2025, month |-> 5, day |-> 21]  -> 172
    [] d = [year |-> 2025, month |-> 11, day |-> 21] -> 355
    [] d = [year |-> 2024, month |-> 8, day |-> 22]  -> 266

\* A day fraction has been computed from localHour.
Converted == pc \notin {"start", "getSolarAtLocalHour"}

\* C9: the day fraction of a local hour is D + f, where D is the date's day
\* of the year shifted by the whole UTC days by which localHour - utcOffset
\* lies outside [0, 24), and f, in [0, 1), is the wrapped UTC hour over 24.
C9_DayFraction ==
  Converted =>
    LET utcHour == localHour - timezone
        shift == IF utcHour >= 0 THEN utcHour \div 1440000
                 ELSE -((-utcHour + 1439999) \div 1440000)
        f == utcHour - shift * 1440000
    IN  /\ f \in 0..1439999
        /\ Nf = (DayOfYear(date) + shift) * 1440000 + f

C9_Witness ==
  /\ pc = "solar"
  /\ localHour - timezone < -1440000
  /\ Nf < (DayOfYear(date) - 1) * 1440000

\* C10: every _mins entry is in [0, 1440) and is 60 * hour24 + minute of the
\* clock string returned for the same event.
C10_MinsMatchStrings ==
  Done => \A e \in Events :
            /\ resultMins[e] \in 0..1439
            /\ resultMins[e] = ParseHM(result[e])

====
